---- MODULE Spec2Model ----
(***************************************************************************)
(* A model of the data-validation engine: ValidationResult                 *)
(* (src/src/validation_result.py) and DataValidator                        *)
(* (src/src/data_validator.py).                                            *)
(*                                                                         *)
(* A table (pandas DataFrame) is a record                                  *)
(*   [columns |-> sequence of column names, rows |-> row count,            *)
(*    cells |-> [column name -> sequence of cell values]].                 *)
(* A cell value is a tagged record: null (None/NaN), int, float (in        *)
(* tenths), str (a sequence of one-character strings), bool, datetime.     *)
(* Optional[...] values are <<>> (None) or <<x>>.                          *)
(*                                                                         *)
(* The file a run is given is a record [path, exists, readable]: its path, *)
(* whether the path exists, and whether pandas can parse its content; df   *)
(* is the table pandas parses from it.  The CLI (src/src/cli.py) adds the  *)
(* session directory, the workbook it writes and the dictionary it         *)
(* returns.                                                                *)
(***************************************************************************)
EXTENDS Integers, Sequences, FiniteSets, TLC

VARIABLES
    df,          \* the loaded table (DataFrame) of the run
    rules,       \* the rules dictionary of the run
    pc,          \* "ready" before the call, "done" after it returned
    op,          \* the method that was called
    result,      \* the ValidationResult being built / returned
    missing_result,  \* validate_file's local missing_result (<<>> when unset)
    type_result,     \* validate_file's local type_result (<<>> when unset)
    calls,       \* the constructor's argument and the numbers of add_* calls made
    args,        \* the arguments of the last add_* or CLI call (<<>> when none)
    summary,     \* the last dictionary get_summary() returned (<<>> when none)
    value,       \* _check_data_type's argument value
    expected_type,   \* _check_data_type's argument expected_type
    is_valid,    \* what _check_data_type returned (<<>> before the call)
    file,        \* the file at the path the run is given
    raised,      \* the exception the call raised (<<>> when it returned)
    workbook,    \* the workbook generate_colored_output wrote (<<>> when none)
    session_dir, \* the files of the CLI's session directory, name -> content
    returned     \* what the last CLI method returned (<<>> before any call)

vars == <<df, rules, pc, op, result, missing_result, type_result, calls, args,
          summary, value, expected_type, is_valid, file, raised, workbook,
          session_dir, returned>>

tableVars == <<df, rules, missing_result, type_result>>
callVars == <<calls, args, summary>>
typeVars == <<value, expected_type, is_valid>>
fileVars == <<file, raised>>
cliVars == <<workbook, session_dir, returned>>

-----------------------------------------------------------------------------
(* Bounds of the model.                                                    *)

MaxRows == 2        \* rows of a table in Spec
MaxEntries == 4     \* add_* calls on one ValidationResult in SpecResult
MaxStrLen == 3      \* characters of a text value in SpecType
MaxReq == 2         \* length of a required_columns list in SpecRequired

-----------------------------------------------------------------------------
(* Optional values and cell values.                                        *)

None == <<>>
Some(x) == <<x>>

Null == [k |-> "null"]
IntV(n) == [k |-> "int", v |-> n]
FloatV(t) == [k |-> "float", tenths |-> t]
StrV(s) == [k |-> "str", s |-> s]
BoolV(b) == [k |-> "bool", b |-> b]
DateV == [k |-> "datetime"]

\* Series.isnull(): None and NaN
isnull(cell) == cell.k = "null"

\* float.is_integer()
is_integer(cell) == cell.tenths % 10 = 0

\* type(value).__name__
TypeName(cell) ==
    CASE cell.k = "int" -> "int"
      [] cell.k = "float" -> "float"
      [] cell.k = "str" -> "str"
      [] cell.k = "bool" -> "bool"
      [] cell.k = "datetime" -> "datetime"
      [] OTHER -> "NoneType"

-----------------------------------------------------------------------------
(* Text: str.strip(), str(x), int(s), float(s).                            *)

Digit == {"0", "1", "2", "3", "4", "5", "6", "7", "8", "9"}
IsSpace(c) == c \in {" ", "\t", "\n"}

RECURSIVE LStrip(_)
LStrip(s) ==
    IF s = <<>> THEN <<>>
    ELSE IF IsSpace(Head(s)) THEN LStrip(Tail(s)) ELSE s

RECURSIVE RStrip(_)
RStrip(s) ==
    IF s = <<>> THEN <<>>
    ELSE IF IsSpace(s[Len(s)]) THEN RStrip(SubSeq(s, 1, Len(s) - 1)) ELSE s

\* str.strip()
Strip(s) == RStrip(LStrip(s))

DigitChar(d) ==
    CASE d = 0 -> "0" [] d = 1 -> "1" [] d = 2 -> "2" [] d = 3 -> "3"
      [] d = 4 -> "4" [] d = 5 -> "5" [] d = 6 -> "6" [] d = 7 -> "7"
      [] d = 8 -> "8" [] OTHER -> "9"

RECURSIVE NatChars(_)
NatChars(n) ==
    IF n < 10 THEN <<DigitChar(n)>>
    ELSE NatChars(n \div 10) \o <<DigitChar(n % 10)>>

\* str(x) of a cell value, as Series.astype(str) applies it
AsTypeStr(cell) ==
    CASE cell.k = "str" -> cell.s
      [] cell.k = "null" -> <<"n", "a", "n">>
      [] cell.k = "int" ->
            IF cell.v < 0 THEN <<"-">> \o NatChars(-cell.v) ELSE NatChars(cell.v)
      [] cell.k = "float" ->
            (IF cell.tenths < 0 THEN <<"-">> ELSE <<>>)
            \o NatChars((IF cell.tenths < 0 THEN -cell.tenths ELSE cell.tenths) \div 10)
            \o <<".">>
            \o NatChars((IF cell.tenths < 0 THEN -cell.tenths ELSE cell.tenths) % 10)
      [] cell.k = "bool" ->
            IF cell.b THEN <<"T", "r", "u", "e">> ELSE <<"F", "a", "l", "s", "e">>
      [] OTHER -> <<"2", "0", "2", "4", "-", "0", "1", "-", "0", "1">>

AllDigits(s) == \A i \in 1..Len(s) : s[i] \in Digit

DropSign(s) == IF s # <<>> /\ Head(s) \in {"+", "-"} THEN Tail(s) ELSE s

\* int(s) returns (TRUE) or raises ValueError (FALSE): surrounding whitespace
\* and one sign are allowed, then one or more decimal digits.
IntParses(s) ==
    LET body == DropSign(Strip(s))
    IN  body # <<>> /\ AllDigits(body)

\* float(s) returns (TRUE) or raises ValueError (FALSE): surrounding whitespace
\* and one sign are allowed, then digits with at most one decimal point and at
\* least one digit.
FloatParses(s) ==
    LET body == DropSign(Strip(s))
        points == {i \in 1..Len(body) : body[i] = "."}
    IN  /\ body # <<>>
        /\ Cardinality(points) <= 1
        /\ \A i \in 1..Len(body) : body[i] \in Digit \cup {"."}
        /\ \E i \in 1..Len(body) : body[i] \in Digit

-----------------------------------------------------------------------------
(* ValidationResult (src/src/validation_result.py).                        *)

ValidationEntry(message, column, row, severity, val) ==
    [message |-> message, column |-> column, row |-> row,
     severity |-> severity, value |-> val]

\* ValidationResult.__init__
NewResult(source_file) ==
    [source_file |-> source_file, errors |-> <<>>, warnings |-> <<>>,
     passed |-> <<>>]

add_error(r, message, column, row, val) ==
    [r EXCEPT !.errors =
        Append(@, ValidationEntry(message, column, row, "error", val))]

\* Faulty variant of add_warning: a copy of add_error that still appends to errors.
add_warning_IntoErrors(r, message, column, row, val) ==
    [r EXCEPT !.errors =
        Append(@, ValidationEntry(message, column, row, "warning", val))]

add_warning(r, message, column, row, val) ==
    [r EXCEPT !.warnings =
        Append(@, ValidationEntry(message, column, row, "warning", val))]

add_passed(r, message, column, row) ==
    [r EXCEPT !.passed =
        Append(@, ValidationEntry(message, column, row, "passed", None))]

has_errors(r) == Len(r.errors) > 0

has_warnings(r) == Len(r.warnings) > 0

\* Faulty variant of get_summary: total_issues counts the errors only.
get_summary_ErrorsOnly(r) ==
    [source_file |-> r.source_file,
     total_errors |-> Len(r.errors),
     total_warnings |-> Len(r.warnings),
     total_passed |-> Len(r.passed),
     total_issues |-> Len(r.errors)]

get_summary(r) ==
    [source_file |-> r.source_file,
     total_errors |-> Len(r.errors),
     total_warnings |-> Len(r.warnings),
     total_passed |-> Len(r.passed),
     total_issues |-> Len(r.errors) + Len(r.warnings)]

\* Faulty variant of Extend: the other result's entries go to the front.
Extend_Prepend(r, other) ==
    [r EXCEPT !.errors = other.errors \o @,
              !.warnings = other.warnings \o @,
              !.passed = other.passed \o @]

\* list.extend of the three sequences (data_validator.py 67-69, 74-76)
Extend(r, other) ==
    [r EXCEPT !.errors = @ \o other.errors,
              !.warnings = @ \o other.warnings,
              !.passed = @ \o other.passed]

-----------------------------------------------------------------------------
(* Tables as pandas holds them.                                            *)

\* dtype of a column, as pandas infers it from the cells
Dtype(col) ==
    IF col = <<>> THEN "object"
    ELSE IF \A i \in 1..Len(col) : col[i].k \in {"float", "null"} THEN "float64"
    ELSE IF \A i \in 1..Len(col) : col[i].k = "int" THEN "int64"
    ELSE IF \A i \in 1..Len(col) : col[i].k = "bool" THEN "bool"
    ELSE IF \A i \in 1..Len(col) : col[i].k = "datetime" THEN "datetime64"
    ELSE "object"

\* A numeric column with a missing cell or a float holds its integers as floats.
InferColumn(col) ==
    IF /\ \A i \in 1..Len(col) : col[i].k \in {"int", "float", "null"}
       /\ \E i \in 1..Len(col) : col[i].k \in {"float", "null"}
       /\ \E i \in 1..Len(col) : col[i].k \in {"int", "float"}
    THEN [i \in 1..Len(col) |->
            IF col[i].k = "int" THEN FloatV(10 * col[i].v) ELSE col[i]]
    ELSE col

\* pd.DataFrame(...) / pd.read_excel / pd.read_csv: the table of the raw cells
DataFrame(columns, rows, cells) ==
    [columns |-> columns, rows |-> rows,
     cells |-> [c \in DOMAIN cells |-> InferColumn(cells[c])]]

InColumns(d, column) == \E i \in 1..Len(d.columns) : d.columns[i] = column

\* Faulty variant of DfEmpty: a table with columns and no rows is not empty.
DfEmpty_ColumnsOnly(d) == Len(d.columns) = 0

\* df.empty
DfEmpty(d) == d.rows = 0 \/ Len(d.columns) = 0

\* df.index.tolist(): the default RangeIndex 0..rows-1
Index(d) == [i \in 1..d.rows |-> i - 1]

Cell(d, column, idx) == d.cells[column][idx + 1]

-----------------------------------------------------------------------------
(* DataValidator (src/src/data_validator.py).                              *)

\* Faulty variant of null_indices: positions counted from 1.
null_indices_OneBased(d, column) ==
    LET null_mask(pos) == isnull(d.cells[column][pos])
    IN  SelectSeq([i \in 1..d.rows |-> i], null_mask)

\* df[null_mask].index.tolist()
null_indices(d, column) ==
    LET null_mask(idx) == isnull(Cell(d, column, idx))
    IN  SelectSeq(Index(d), null_mask)

\* Faulty variant of empty_indices: the text is not stripped.
empty_indices_NoStrip(d, column) ==
    IF Dtype(d.cells[column]) = "object"
    THEN LET keep(idx) ==
                 /\ AsTypeStr(Cell(d, column, idx)) = <<>>
                 /\ ~isnull(Cell(d, column, idx))
         IN  SelectSeq(Index(d), keep)
    ELSE <<>>

\* df[empty_mask & ~null_mask].index.tolist(), or [] for a non-object column
empty_indices(d, column) ==
    IF Dtype(d.cells[column]) = "object"
    THEN LET keep(idx) ==
                 /\ Strip(AsTypeStr(Cell(d, column, idx))) = <<>>
                 /\ ~isnull(Cell(d, column, idx))
         IN  SelectSeq(Index(d), keep)
    ELSE <<>>

\* for idx in indices: result.add_error(message, column, idx)
RECURSIVE AddErrorsAt(_, _, _, _)
AddErrorsAt(r, message, column, indices) ==
    IF indices = <<>> THEN r
    ELSE AddErrorsAt(add_error(r, message, column, Some(Head(indices)), None),
                     message, column, Tail(indices))

\* Faulty variant of MissingInColumn: valid_count forgets the empty strings.
MissingInColumn_NullsOnly(r, d, column) ==
    LET nulls == null_indices(d, column)
        empties == empty_indices(d, column)
        r1 == AddErrorsAt(r, "Missing value (null/NaN)", column, nulls)
        r2 == AddErrorsAt(r1, "Missing value (empty string)", column, empties)
        valid_count == d.rows - Len(nulls)
    IN  IF valid_count > 0
        THEN add_passed(r2, ToString(valid_count) \o " valid values", column, None)
        ELSE r2

\* one iteration of detect_missing_values' loop over df.columns
MissingInColumn(r, d, column) ==
    LET nulls == null_indices(d, column)
        empties == empty_indices(d, column)
        r1 == AddErrorsAt(r, "Missing value (null/NaN)", column, nulls)
        r2 == AddErrorsAt(r1, "Missing value (empty string)", column, empties)
        valid_count == d.rows - Len(nulls) - Len(empties)
    IN  IF valid_count > 0
        THEN add_passed(r2, ToString(valid_count) \o " valid values", column, None)
        ELSE r2

RECURSIVE MissingLoop(_, _, _)
MissingLoop(r, d, columns) ==
    IF columns = <<>> THEN r
    ELSE MissingLoop(MissingInColumn(r, d, Head(columns)), d, Tail(columns))

detect_missing_values(d) ==
    IF DfEmpty(d)
    THEN add_warning(NewResult(""), "Empty dataframe provided", "", None, None)
    ELSE MissingLoop(NewResult(""), d, d.columns)

\* Faulty variant of TryCheck: a string is an 'int' when float(value) succeeds.
TryCheck_FloatForInt(val, expected) ==
    IF expected = "int" THEN
        IF val.k \in {"int", "bool"} THEN "True"
        ELSE IF val.k = "float" THEN (IF is_integer(val) THEN "True" ELSE "False")
        ELSE IF val.k = "str"
             THEN (IF FloatParses(val.s) THEN "True" ELSE "ValueError")
        ELSE "False"
    ELSE IF expected = "float" THEN
        IF val.k \in {"int", "bool", "float"} THEN "True"
        ELSE IF val.k = "str"
             THEN (IF FloatParses(val.s) THEN "True" ELSE "ValueError")
        ELSE "False"
    ELSE IF expected = "str" THEN (IF val.k = "str" THEN "True" ELSE "False")
    ELSE IF expected = "bool" THEN (IF val.k = "bool" THEN "True" ELSE "False")
    ELSE "True"

\* the predicate with exact type tests: a bool is no int and no number
TryCheck_BoolStrict(val, expected) ==
    IF expected = "int" THEN
        IF val.k = "int" THEN "True"
        ELSE IF val.k = "float" THEN (IF is_integer(val) THEN "True" ELSE "False")
        ELSE IF val.k = "str"
             THEN (IF IntParses(val.s) THEN "True" ELSE "ValueError")
        ELSE "False"
    ELSE IF expected = "float" THEN
        IF val.k \in {"int", "float"} THEN "True"
        ELSE IF val.k = "str"
             THEN (IF FloatParses(val.s) THEN "True" ELSE "ValueError")
        ELSE "False"
    ELSE IF expected = "str" THEN (IF val.k = "str" THEN "True" ELSE "False")
    ELSE IF expected = "bool" THEN (IF val.k = "bool" THEN "True" ELSE "False")
    ELSE "True"

\* the try block (lines 188-214): "True" or "False" when it returns, the
\* exception's name when int(value) or float(value) raises. A bool is an int.
TryCheck(val, expected) ==
    IF expected = "int" THEN
        IF val.k \in {"int", "bool"} THEN "True"
        ELSE IF val.k = "float" THEN (IF is_integer(val) THEN "True" ELSE "False")
        ELSE IF val.k = "str"
             THEN (IF IntParses(val.s) THEN "True" ELSE "ValueError")
        ELSE "False"
    ELSE IF expected = "float" THEN
        IF val.k \in {"int", "bool", "float"} THEN "True"
        ELSE IF val.k = "str"
             THEN (IF FloatParses(val.s) THEN "True" ELSE "ValueError")
        ELSE "False"
    ELSE IF expected = "str" THEN (IF val.k = "str" THEN "True" ELSE "False")
    ELSE IF expected = "bool" THEN (IF val.k = "bool" THEN "True" ELSE "False")
    ELSE "True"

\* except (ValueError, TypeError): return False
_check_data_type(val, expected) ==
    LET outcome == TryCheck(val, expected)
    IN  IF outcome \in {"ValueError", "TypeError"} THEN FALSE
        ELSE outcome = "True"

\* Faulty variant of dropna: cells already reported as empty strings are dropped too.
dropna_AndEmpty(d, column) ==
    LET keep(idx) ==
            /\ ~isnull(Cell(d, column, idx))
            /\ Strip(AsTypeStr(Cell(d, column, idx))) # <<>>
        kept == SelectSeq(Index(d), keep)
    IN  [i \in 1..Len(kept) |-> <<kept[i], Cell(d, column, kept[i])>>]

\* df[column].dropna().items(): the (idx, value) pairs of the non-null cells
dropna(d, column) ==
    LET keep(idx) == ~isnull(Cell(d, column, idx))
        kept == SelectSeq(Index(d), keep)
    IN  [i \in 1..Len(kept) |-> <<kept[i], Cell(d, column, kept[i])>>]

\* the loop recording the type errors without the offending value
RECURSIVE CheckValues_NoValue(_, _, _, _)
CheckValues_NoValue(r, column, expected, items) ==
    IF items = <<>> THEN r
    ELSE LET idx == Head(items)[1]
             val == Head(items)[2]
             r1 == IF ~_check_data_type(val, expected)
                   THEN add_error(r,
                            "Invalid data type. Expected " \o expected
                                \o ", got " \o TypeName(val),
                            column, Some(idx), None)
                   ELSE add_passed(r, "Valid " \o expected \o " value", column,
                                   Some(idx))
         IN  CheckValues_NoValue(r1, column, expected, Tail(items))

\* the loop over col_data.items() of validate_data_types
RECURSIVE CheckValues(_, _, _, _)
CheckValues(r, column, expected, items) ==
    IF items = <<>> THEN r
    ELSE LET idx == Head(items)[1]
             val == Head(items)[2]
             r1 == IF ~_check_data_type(val, expected)
                   THEN add_error(r,
                            "Invalid data type. Expected " \o expected
                                \o ", got " \o TypeName(val),
                            column, Some(idx), Some(val))
                   ELSE add_passed(r, "Valid " \o expected \o " value", column,
                                   Some(idx))
         IN  CheckValues(r1, column, expected, Tail(items))

\* the iteration passing over an all-null column without a warning
TypeRule_SkipSilently(r, d, column, expected) ==
    IF ~InColumns(d, column)
    THEN add_error(r, "Column not found in data", column, None, None)
    ELSE CheckValues(r, column, expected, dropna(d, column))

\* one iteration of validate_data_types' loop over type_rules.items()
TypeRule(r, d, column, expected) ==
    IF ~InColumns(d, column)
    THEN add_error(r, "Column not found in data", column, None, None)
    ELSE LET col_data == dropna(d, column)
         IN  IF col_data = <<>>
             THEN add_warning(r, "Column contains only missing values", column,
                              None, None)
             ELSE CheckValues(r, column, expected, col_data)

\* the loop leaving at the first column that is not in the table
RECURSIVE TypeLoop_StopAtMissing(_, _, _)
TypeLoop_StopAtMissing(r, d, type_rules) ==
    IF type_rules = <<>> THEN r
    ELSE IF ~InColumns(d, Head(type_rules)[1])
    THEN TypeRule(r, d, Head(type_rules)[1], Head(type_rules)[2])
    ELSE TypeLoop_StopAtMissing(
             TypeRule(r, d, Head(type_rules)[1], Head(type_rules)[2]),
             d, Tail(type_rules))

\* the loop of validate_data_types over type_rules.items()
RECURSIVE TypeLoop(_, _, _)
TypeLoop(r, d, type_rules) ==
    IF type_rules = <<>> THEN r
    ELSE TypeLoop(TypeRule(r, d, Head(type_rules)[1], Head(type_rules)[2]),
                  d, Tail(type_rules))

\* type_rules is the dictionary's items in iteration order: <<column, type>> pairs
validate_data_types(d, type_rules) == TypeLoop(NewResult(""), d, type_rules)

\* set(required_columns) - set(df.columns)
missing_columns(d, required_columns) ==
    {required_columns[i] : i \in 1..Len(required_columns)}
        \ {d.columns[i] : i \in 1..Len(d.columns)}

RECURSIVE AddColumnErrors(_, _)
AddColumnErrors(r, columns) ==
    IF columns = <<>> THEN r
    ELSE AddColumnErrors(
             add_error(r, "Required column missing", Head(columns), None, None),
             Tail(columns))

RECURSIVE AddPresent(_, _, _)
AddPresent(r, d, required_columns) ==
    IF required_columns = <<>> THEN r
    ELSE AddPresent(
             IF InColumns(d, Head(required_columns))
             THEN add_passed(r, "Required column present", Head(required_columns),
                             None)
             ELSE r,
             d, Tail(required_columns))

\* Faulty variant of _validate_required_columns: one error per listing of an
\* absent name, in list order, instead of one per distinct absent name.
_validate_required_columns_PerListing(d, required_columns, r, set_order) ==
    LET absent(n) == ~InColumns(d, n)
    IN  AddPresent(AddColumnErrors(r, SelectSeq(required_columns, absent)), d,
                   required_columns)

\* set_order is the order in which the set missing_columns is iterated
_validate_required_columns(d, required_columns, r, set_order) ==
    AddPresent(AddColumnErrors(r, set_order), d, required_columns)

\* the stems of the file names of the model
Stems == {"", "data", "nonexistent", "notes", "test", "test_session",
          "validate_data", "validate_nonexistent", "data_validated",
          "nonexistent_validated"}

\* str.endswith, over the file names of the model
endswith(name, suffix) == \E stem \in Stems : name = stem \o suffix

\* what pandas says when it cannot parse the content
ParserError == "Error tokenizing data"

Exception(type, message) == [type |-> type, message |-> message]

\* validate_file checking the extension before the existence of the path
LoadFile_ExtensionFirst(f) ==
    IF ~(endswith(f.path, ".xlsx") \/ endswith(f.path, ".csv"))
    THEN Some(Exception("ValueError",
                        "Error reading file " \o f.path \o ": "
                            \o "Unsupported file format: " \o f.path))
    ELSE IF ~f.exists
    THEN Some(Exception("FileNotFoundError", "File not found: " \o f.path))
    ELSE IF f.readable THEN None
    ELSE Some(Exception("ValueError",
                        "Error reading file " \o f.path \o ": "
                            \o ParserError))

\* validate_file loading the table (lines 40-52): the exception it raises,
\* None when the table is loaded.  The ValueError raised for an unsupported
\* extension is caught by the except clause and wrapped like a parse error.
LoadFile(f) ==
    IF ~f.exists
    THEN Some(Exception("FileNotFoundError", "File not found: " \o f.path))
    ELSE IF endswith(f.path, ".xlsx") \/ endswith(f.path, ".csv")
    THEN IF f.readable THEN None
         ELSE Some(Exception("ValueError",
                             "Error reading file " \o f.path \o ": "
                                 \o ParserError))
    ELSE Some(Exception("ValueError",
                        "Error reading file " \o f.path \o ": "
                            \o "Unsupported file format: " \o f.path))

\* validate_file once the table is loaded (lines 54-78): the returned result
\* and the locals missing_result and type_result (None where never assigned)
validate_file(d, file_path, rl, set_order) ==
    LET result0 == NewResult(file_path)
    IN  IF DfEmpty(d)
        THEN [result |-> add_warning(result0, "File contains no data", "", None,
                                     None),
              missing_result |-> None, type_result |-> None]
        ELSE LET r1 == IF "required_columns" \in DOMAIN rl
                       THEN _validate_required_columns(d, rl.required_columns,
                                                       result0, set_order)
                       ELSE result0
                 missing == detect_missing_values(d)
                 r2 == Extend(r1, missing)
             IN  IF "data_types" \in DOMAIN rl
                 THEN LET types == validate_data_types(d, rl.data_types)
                      IN  [result |-> Extend(r2, types),
                           missing_result |-> missing, type_result |-> types]
                 ELSE [result |-> r2, missing_result |-> missing,
                       type_result |-> None]

-----------------------------------------------------------------------------
(* The inputs of the runs.                                                 *)

\* all sequences over S of length at most n
RECURSIVE SeqsUpTo(_, _)
SeqsUpTo(S, n) ==
    IF n = 0 THEN {<<>>}
    ELSE LET shorter == SeqsUpTo(S, n - 1)
         IN  shorter \cup {Append(s, x) : s \in shorter, x \in S}

\* the orders in which a set can be iterated
Orders(S) ==
    {s \in [1..Cardinality(S) -> S] : \A i, j \in 1..Cardinality(S) :
                                          i # j => s[i] # s[j]}

FilePath == "data.xlsx"

ColumnLists == {<<>>, <<"id">>, <<"id", "name">>, <<"name", "id">>}

RawCells(column) ==
    IF column = "id"
    THEN {Null, IntV(1), StrV(<<>>), StrV(<<"A">>)}
    ELSE {Null, FloatV(35), StrV(<<" ">>), StrV(<<"3", "0">>)}

\* the tables of at most n rows over the column lists
TablesUpTo(n) ==
    UNION {
      UNION {
        {DataFrame(columns, rows,
                   [c \in {columns[i] : i \in 1..Len(columns)} |->
                       IF c = "id" THEN ids ELSE names]) :
            ids \in [1..rows -> RawCells("id")],
            names \in [1..rows -> RawCells("name")]}
        : rows \in (IF columns = <<>> THEN {0} ELSE 0..n)}
      : columns \in ColumnLists}

NoRules == [key \in {} |-> <<>>]

RuleSets ==
    { NoRules,
      [required_columns |-> <<"id", "age">>],
      [data_types |-> <<<<"id", "int">>, <<"name", "str">>>>],
      [required_columns |-> <<"name", "zip", "name", "age">>,
       data_types |-> <<<<"age", "int">>, <<"name", "float">>, <<"id", "text">>>>] }

-----------------------------------------------------------------------------
(* Spec: one call of validate_file, detect_missing_values or               *)
(* validate_data_types on a loaded table.                                  *)

NoCalls(source_file) ==
    [source_file |-> source_file, error |-> 0, warning |-> 0, passed |-> 0]

\* no ValidationResult is driven directly
CallsIdle == calls = NoCalls("") /\ args = None /\ summary = None

\* _check_data_type is not called directly
TypeIdle == value = None /\ expected_type = None /\ is_valid = None

\* the file of the run: an existing, parsable workbook
DataFile == [path |-> FilePath, exists |-> TRUE, readable |-> TRUE]

NoFiles == [name \in {} |-> ""]

\* the run is given the file of the run
FileIdle == file = DataFile /\ raised = None

\* the CLI is not driven
CliIdle == workbook = None /\ session_dir = NoFiles /\ returned = None

Idle == CallsIdle /\ TypeIdle /\ CliIdle

Init ==
    /\ df \in TablesUpTo(MaxRows)
    /\ rules \in RuleSets
    /\ FileIdle
    /\ pc = "ready"
    /\ op = "none"
    /\ result = None
    /\ missing_result = None
    /\ type_result = None
    /\ Idle

ValidateFile ==
    /\ pc = "ready"
    /\ raised' = LoadFile(file)
    /\ IF LoadFile(file) # None
       THEN UNCHANGED <<result, missing_result, type_result>>
       ELSE
       \E set_order \in Orders(IF "required_columns" \in DOMAIN rules
                               THEN missing_columns(df, rules.required_columns)
                               ELSE {}) :
          LET run == validate_file(df, file.path, rules, set_order)
          IN  /\ result' = run.result
              /\ missing_result' = run.missing_result
              /\ type_result' = run.type_result
    /\ pc' = "done"
    /\ op' = "validate_file"
    /\ UNCHANGED <<df, rules, callVars, typeVars, file, cliVars>>

DetectMissingValues ==
    /\ pc = "ready"
    /\ result' = detect_missing_values(df)
    /\ pc' = "done"
    /\ op' = "detect_missing_values"
    /\ UNCHANGED <<tableVars, callVars, typeVars, fileVars, cliVars>>

ValidateDataTypes ==
    /\ pc = "ready"
    /\ "data_types" \in DOMAIN rules
    /\ result' = validate_data_types(df, rules.data_types)
    /\ pc' = "done"
    /\ op' = "validate_data_types"
    /\ UNCHANGED <<tableVars, callVars, typeVars, fileVars, cliVars>>

Next == ValidateFile \/ DetectMissingValues \/ ValidateDataTypes

Spec == Init /\ [][Next]_vars

-----------------------------------------------------------------------------
(* SpecRequired: validate_file under every required_columns list of at     *)
(* most MaxReq names, on one-row tables.                                   *)

ReqNames == {"id", "name", "age", "zip"}

RequiredRuleSets ==
    {[required_columns |-> l] : l \in SeqsUpTo(ReqNames, MaxReq)}
    \cup {[required_columns |-> l, data_types |-> <<<<"id", "int">>>>] :
             l \in SeqsUpTo(ReqNames, MaxReq)}

InitRequired ==
    /\ df \in {d \in TablesUpTo(1) : d.rows = 1 /\ d.cells["id"][1] = IntV(1)}
    /\ rules \in RequiredRuleSets
    /\ FileIdle
    /\ pc = "ready"
    /\ op = "none"
    /\ result = None
    /\ missing_result = None
    /\ type_result = None
    /\ Idle

SpecRequired == InitRequired /\ [][ValidateFile]_vars

-----------------------------------------------------------------------------
(* What the claims speak of.                                               *)

Count(seq, Test(_)) == Cardinality({i \in 1..Len(seq) : Test(seq[i])})

SeqOrEmpty(r, field) == IF r = None THEN <<>> ELSE r[field]

Columns(d) == {d.columns[i] : i \in 1..Len(d.columns)}

Rows(d) == {i - 1 : i \in 1..d.rows}

NullMessage == "Missing value (null/NaN)"
EmptyMessage == "Missing value (empty string)"
ValidMessages == {ToString(n) \o " valid values" : n \in 0..(df.rows + 1)}

RanValidateFile == pc = "done" /\ op = "validate_file"

\* the run executed the missing-value check on a table with rows
RanMissing ==
    /\ pc = "done"
    /\ op \in {"validate_file", "detect_missing_values"}
    /\ ~(df.rows = 0 \/ df.columns = <<>>)

\* the ValidationResult the missing-value check returned
MissingFindings == IF op = "validate_file" THEN missing_result ELSE result

\* the pass an entry of a result comes from, told by its message
PassOf(e) ==
    IF e.message \in {"Required column missing", "Required column present"}
    THEN 1
    ELSE IF e.message \in {NullMessage, EmptyMessage} \cup ValidMessages THEN 2
    ELSE 3

\* the entries the required-column check appended: those ahead of the other
\* two passes' entries in the returned result
RequiredPart(field) ==
    SubSeq(result[field], 1,
           Len(result[field]) - Len(SeqOrEmpty(missing_result, field))
               - Len(SeqOrEmpty(type_result, field)))

-----------------------------------------------------------------------------
\* C1: for every table with zero rows and every rule set, validate_file
\* returns exactly one warning ('File contains no data', column '', no row),
\* no error and no passed entry, and none of the three check passes has run.
C1_EmptyTable ==
    (RanValidateFile /\ df.rows = 0) =>
        /\ result.warnings =
              <<[message |-> "File contains no data", column |-> "",
                 row |-> None, severity |-> "warning", value |-> None]>>
        /\ result.errors = <<>>
        /\ result.passed = <<>>
        /\ missing_result = None
        /\ type_result = None

C1_Witness ==
    /\ RanValidateFile
    /\ df.rows = 0
    /\ df.columns = <<"id", "name">>
    /\ DOMAIN rules = {"required_columns", "data_types"}

\* C2: on a non-empty table the required-column check emits exactly one error
\* 'Required column missing' (column = name, no row) for each distinct listed
\* name absent from the table, one passed 'Required column present'
\* (column = name) for each listing of a name present in the table, and
\* nothing else.
C2_RequiredColumns ==
    (RanValidateFile /\ df.rows > 0 /\ "required_columns" \in DOMAIN rules) =>
        LET req == rules.required_columns
            listed == {req[i] : i \in 1..Len(req)}
            errs == RequiredPart("errors")
            oks == RequiredPart("passed")
        IN  /\ RequiredPart("warnings") = <<>>
            /\ \A i \in 1..Len(errs) :
                  /\ errs[i].message = "Required column missing"
                  /\ errs[i].row = None
                  /\ errs[i].value = None
                  /\ errs[i].severity = "error"
            /\ \A i \in 1..Len(oks) :
                  /\ oks[i].message = "Required column present"
                  /\ oks[i].row = None
                  /\ oks[i].value = None
                  /\ oks[i].severity = "passed"
            /\ \A n \in ReqNames :
                  LET isN(e) == e.column = n
                  IN  /\ Count(errs, isN) =
                            (IF n \in listed /\ n \notin Columns(df) THEN 1 ELSE 0)
                      /\ Count(oks, isN) =
                            (IF n \in Columns(df)
                             THEN Cardinality({i \in 1..Len(req) : req[i] = n})
                             ELSE 0)
            /\ \A i \in 1..Len(errs) : errs[i].column \in ReqNames
            /\ \A i \in 1..Len(oks) : oks[i].column \in ReqNames

\* the spec's scenario: required_columns ["id", "age"] on a table with only "id"
C2_Witness ==
    /\ RanValidateFile
    /\ df.rows > 0
    /\ df.columns = <<"id">>
    /\ "required_columns" \in DOMAIN rules
    /\ rules.required_columns = <<"id", "age">>
    /\ Len(RequiredPart("errors")) = 1
    /\ Len(RequiredPart("passed")) = 1

\* C3: every null cell gets exactly one error of the missing-value check at
\* its (column, row), with message 'Missing value (null/NaN)' and no value,
\* and never a 'Missing value (empty string)' error.
C3_NullCells ==
    RanMissing =>
        \A c \in Columns(df) : \A idx \in Rows(df) :
            isnull(df.cells[c][idx + 1]) =>
                LET here(e) == e.column = c /\ e.row = Some(idx)
                    nullHere(e) ==
                        /\ here(e)
                        /\ e.message = NullMessage
                        /\ e.value = None
                        /\ e.severity = "error"
                    emptyHere(e) == here(e) /\ e.message = EmptyMessage
                IN  /\ Count(MissingFindings.errors, nullHere) = 1
                    /\ Count(MissingFindings.errors, here) = 1
                    /\ Count(MissingFindings.errors, emptyHere) = 0
                    /\ op = "validate_file" =>
                          /\ Count(result.errors, nullHere) = 1
                          /\ Count(result.errors, emptyHere) = 0

\* a column holding a null cell next to an empty-string cell
C3_Witness ==
    /\ RanValidateFile
    /\ df.rows = 2
    /\ "id" \in Columns(df)
    /\ df.cells["id"] = <<StrV(<<>>), Null>>

\* C4: every non-null text cell whose trimmed value is empty gets exactly one
\* error 'Missing value (empty string)' of the missing-value check at its
\* (column, row); a cell whose trimmed text is not empty gets no error of it.
C4_EmptyCells ==
    RanMissing =>
        \A c \in Columns(df) : \A idx \in Rows(df) :
            LET cell == df.cells[c][idx + 1]
                here(e) == e.column = c /\ e.row = Some(idx)
                emptyHere(e) ==
                    /\ here(e)
                    /\ e.message = EmptyMessage
                    /\ e.value = None
                    /\ e.severity = "error"
            IN  /\ (cell.k = "str" /\ Strip(cell.s) = <<>>) =>
                      /\ Count(MissingFindings.errors, emptyHere) = 1
                      /\ Count(MissingFindings.errors, here) = 1
                /\ (cell.k = "str" /\ Strip(cell.s) # <<>>) =>
                      Count(MissingFindings.errors, here) = 0
                /\ cell.k \notin {"str", "null"} =>
                      Count(MissingFindings.errors, here) = 0

\* a whitespace-only cell, an empty cell and a text cell in one table
C4_Witness ==
    /\ RanMissing
    /\ df.rows = 2
    /\ df.columns = <<"id", "name">>
    /\ df.cells["name"] = <<StrV(<<" ">>), StrV(<<"3", "0">>)>>
    /\ df.cells["id"] = <<StrV(<<>>), StrV(<<"A">>)>>

\* C5: per column the missing-value check emits at most one passed entry; its
\* message is '{N} valid values' with N + null errors + empty-string errors
\* of the column = row count, and it is omitted exactly when every cell of
\* the column is null or an empty (after trimming) text.
C5_ValidCount ==
    RanMissing =>
        \A c \in Columns(df) :
            LET inCol(e) == e.column = c
                nullErr(e) == e.column = c /\ e.message = NullMessage
                emptyErr(e) == e.column = c /\ e.message = EmptyMessage
                nulls == Count(MissingFindings.errors, nullErr)
                empties == Count(MissingFindings.errors, emptyErr)
                oks == SelectSeq(MissingFindings.passed, inCol)
                missingCell(cell) ==
                    \/ cell.k = "null"
                    \/ cell.k = "str" /\ Strip(cell.s) = <<>>
                allMissing == \A i \in 1..df.rows : missingCell(df.cells[c][i])
            IN  /\ Len(oks) <= 1
                /\ Len(oks) = 1 =>
                      \E n \in 1..df.rows :
                          /\ oks[1].message = ToString(n) \o " valid values"
                          /\ n + nulls + empties = df.rows
                          /\ oks[1].row = None
                /\ (Len(oks) = 0) <=> allMissing

\* one column with a valid-count entry, one column without
C5_Witness ==
    /\ RanMissing
    /\ df.rows = 2
    /\ df.columns = <<"id", "name">>
    /\ df.cells["id"] = <<Null, StrV(<<>>)>>
    /\ df.cells["name"] = <<StrV(<<" ">>), StrV(<<"3", "0">>)>>
    /\ Len(MissingFindings.passed) = 1
    /\ MissingFindings.passed[1].message = "1 valid values"

\* C8: in the result of validate_file on a non-empty table, in each of
\* errors, warnings and passed the entries of the required-column check come
\* first, then those of the missing-value check, then those of the
\* type-conformance check, each pass's entries in the order it produced them.
C8_PassOrder ==
    (RanValidateFile /\ df.rows > 0) =>
        \A field \in {"errors", "warnings", "passed"} :
            LET seq == result[field]
                isRequired(e) == PassOf(e) = 1
                isMissing(e) == PassOf(e) = 2
                isType(e) == PassOf(e) = 3
                req == IF "required_columns" \in DOMAIN rules
                       THEN rules.required_columns ELSE <<>>
                present(n) == n \in Columns(df)
                reqSeq == SelectSeq(seq, isRequired)
            IN  /\ \A i, j \in 1..Len(seq) :
                      i < j => PassOf(seq[i]) <= PassOf(seq[j])
                /\ SelectSeq(seq, isMissing) = missing_result[field]
                /\ SelectSeq(seq, isType) = SeqOrEmpty(type_result, field)
                /\ field = "passed" =>
                      [i \in 1..Len(reqSeq) |-> reqSeq[i].column]
                          = SelectSeq(req, present)
                /\ field = "errors" =>
                      [i \in 1..Len(reqSeq) |-> reqSeq[i].column]
                          \in Orders(missing_columns(df, req))

\* errors and passed entries of all three passes in one result
C8_Witness ==
    /\ RanValidateFile
    /\ df.rows > 0
    /\ \A p \in {1, 2, 3} :
          /\ \E i \in 1..Len(result.errors) : PassOf(result.errors[i]) = p
          /\ \E i \in 1..Len(result.passed) : PassOf(result.passed[i]) = p
    /\ result.warnings # <<>>

-----------------------------------------------------------------------------
(* SpecType: one call of _check_data_type on a non-null value.             *)

Chars == {" ", "-", ".", "0", "3", "5", "A"}

Texts == SeqsUpTo(Chars, MaxStrLen)

TypeValues ==
    {IntV(30), IntV(0), FloatV(300), FloatV(35), BoolV(TRUE), BoolV(FALSE), DateV}
    \cup {StrV(t) : t \in Texts}

Tags == {"int", "float", "str", "bool", "text"}

NoTable == DataFrame(<<>>, 0, [c \in {} |-> <<>>])

\* no table is being validated
TableIdle ==
    /\ df = NoTable
    /\ rules = NoRules
    /\ result = None
    /\ missing_result = None
    /\ type_result = None

InitType ==
    /\ value \in TypeValues
    /\ expected_type \in Tags
    /\ is_valid = None
    /\ pc = "ready"
    /\ op = "none"
    /\ TableIdle
    /\ CallsIdle
    /\ FileIdle
    /\ CliIdle

CheckDataType ==
    /\ pc = "ready"
    /\ is_valid' = Some(_check_data_type(value, expected_type))
    /\ pc' = "done"
    /\ op' = "_check_data_type"
    /\ UNCHANGED <<tableVars, result, callVars, value, expected_type, fileVars,
                   cliVars>>

SpecType == InitType /\ [][CheckDataType]_vars

\* a run of n characters c, for the text grammars below
Run(c, n) == [i \in 1..n |-> c]

Signs == {<<>>, <<"+">>, <<"-">>}

Piece(s, from, n) == SubSeq(s, from + 1, from + n)

AllIn(s, S) == \A i \in 1..Len(s) : s[i] \in S

\* the texts of base-10 integers: blanks, an optional sign, digits, blanks
IsIntText(s) ==
    \E a, b, n \in 0..Len(s) : \E sign \in Signs :
        /\ n >= 1
        /\ a + Len(sign) + n + b = Len(s)
        /\ AllIn(Piece(s, a + Len(sign), n), Digit)
        /\ s = Run(" ", a) \o sign \o Piece(s, a + Len(sign), n) \o Run(" ", b)

\* the texts of decimal numbers: blanks, an optional sign, digits with at most
\* one point before, among or after them, blanks
IsFloatText(s) ==
    \E a, b, d1, d2 \in 0..Len(s) : \E sign \in Signs : \E point \in {<<>>, <<".">>} :
        LET whole == Piece(s, a + Len(sign), d1)
            frac == Piece(s, a + Len(sign) + d1 + Len(point), d2)
        IN  /\ d1 + d2 >= 1
            /\ a + Len(sign) + d1 + Len(point) + d2 + b = Len(s)
            /\ AllIn(whole, Digit)
            /\ AllIn(frac, Digit)
            /\ s = Run(" ", a) \o sign \o whole \o point \o frac \o Run(" ", b)

\* C6: _check_data_type agrees with the type table: 'int' accepts native
\* integers, floats with zero fractional part and texts of base-10
\* integers, and rejects "3.5" and non-integral floats; 'float' accepts every
\* native number and every text of a decimal number; 'str' accepts text values
\* only; 'bool' accepts native booleans only; any other tag accepts every
\* value; a malformed numeric text gives False, never an exception.
C6_TypePredicate ==
    (pc = "done" /\ op = "_check_data_type") =>
        LET ok == is_valid[1]
            v == value
            t == expected_type
        IN  /\ is_valid \in {<<TRUE>>, <<FALSE>>}
            /\ t = "int" =>
                  /\ v.k = "int" => ok
                  /\ v.k = "float" => (ok <=> v.tenths % 10 = 0)
                  /\ v.k = "str" => (ok <=> IsIntText(v.s))
                  /\ v = StrV(<<"3", "0">>) => ok
                  /\ v = FloatV(300) => ok
                  /\ v = StrV(<<"3", ".", "5">>) => ~ok
                  /\ v = FloatV(35) => ~ok
            /\ t = "float" =>
                  /\ v.k \in {"int", "float"} => ok
                  /\ v.k = "str" => (ok <=> IsFloatText(v.s))
                  /\ v = StrV(<<"3", ".", "5">>) => ok
                  /\ v = StrV(<<"3", "A">>) => ~ok
            /\ t = "str" => (ok <=> v.k = "str")
            /\ t = "bool" => (ok <=> v.k = "bool")
            /\ t \notin {"int", "float", "str", "bool"} => ok

\* "3.5" was checked against 'int' and rejected
C6_Witness ==
    /\ pc = "done"
    /\ op = "_check_data_type"
    /\ value = StrV(<<"3", ".", "5">>)
    /\ expected_type = "int"
    /\ is_valid = <<FALSE>>

-----------------------------------------------------------------------------
(* SpecScenario: the runs on the three-row tables whose "id" cells are     *)
(* among 1, 2, None and whose "name" cells are among "A", "B", "", under   *)
(* the rules {data_types: {id: int, name: str}}.                           *)

ScenarioRules == [data_types |-> <<<<"id", "int">>, <<"name", "str">>>>]

ScenarioIds == <<IntV(1), IntV(2), Null>>
ScenarioNames == <<StrV(<<"A">>), StrV(<<"B">>), StrV(<<>>)>>

ScenarioTables ==
    {DataFrame(<<"id", "name">>, Len(ScenarioIds), [id |-> ids, name |-> names]) :
        ids \in [1..Len(ScenarioIds) ->
                    {ScenarioIds[i] : i \in 1..Len(ScenarioIds)}],
        names \in [1..Len(ScenarioNames) ->
                    {ScenarioNames[i] : i \in 1..Len(ScenarioNames)}]}

\* the table {id: [1, 2, None], name: ["A", "B", ""]} as pandas holds it
ScenarioTable ==
    DataFrame(<<"id", "name">>, Len(ScenarioIds),
              [id |-> ScenarioIds, name |-> ScenarioNames])

InitScenario ==
    /\ df \in ScenarioTables
    /\ rules = ScenarioRules
    /\ FileIdle
    /\ pc = "ready"
    /\ op = "none"
    /\ result = None
    /\ missing_result = None
    /\ type_result = None
    /\ Idle

SpecScenario == InitScenario /\ [][Next]_vars

\* the rows of the passed entries of a result for a column, in order
PassedRows(r, c) ==
    LET inCol(e) == e.column = c
        oks == SelectSeq(r.passed, inCol)
    IN  [i \in 1..Len(oks) |-> oks[i].row]

\* what the scenario says of the missing-value errors and of the "id" column
ScenarioCommon ==
    /\ missing_result.errors =
          <<[message |-> NullMessage, column |-> "id", row |-> Some(2),
             severity |-> "error", value |-> None],
            [message |-> EmptyMessage, column |-> "name", row |-> Some(2),
             severity |-> "error", value |-> None]>>
    /\ type_result.errors = <<>>
    /\ type_result.warnings = <<>>
    /\ PassedRows(type_result, "id") = <<Some(0), Some(1)>>
    /\ \A i \in 1..Len(type_result.passed) :
          type_result.passed[i].message \in {"Valid int value", "Valid str value"}

\* C7 as stated: on {id: [1, 2, None], name: ["A", "B", ""]} with
\* {id: int, name: str} there is one null error (id, row 2), one empty-string
\* error (name, row 2), and the type pass gives exactly two passed entries for
\* id (rows 0, 1) and exactly two for name (rows 0, 1), none for row 2.
C7_AsStated ==
    (RanValidateFile /\ df = ScenarioTable) =>
        /\ ScenarioCommon
        /\ PassedRows(type_result, "name") = <<Some(0), Some(1)>>

\* C7 amended: as above for the errors and for id, but the type pass gives
\* three passed entries for name (rows 0, 1, 2): only null cells are dropped
\* before the type check, and the empty string is a str.
C7_Scenario ==
    (RanValidateFile /\ df = ScenarioTable) =>
        /\ ScenarioCommon
        /\ PassedRows(type_result, "name") = <<Some(0), Some(1), Some(2)>>
        /\ Len(type_result.passed) = 5
        /\ result.errors = missing_result.errors
        /\ result.passed = missing_result.passed \o type_result.passed

C7_Witness ==
    /\ RanValidateFile
    /\ df = ScenarioTable
    /\ Len(result.errors) = 2
    /\ Len(result.passed) = 7

-----------------------------------------------------------------------------
(* SpecResult: a ValidationResult under add_error, add_warning, add_passed *)
(* and get_summary calls.                                                  *)

SourceFiles == {"test.xlsx", ""}

CallArgs ==
    {[message |-> "Error 1", column |-> "col1", row |-> Some(1), value |-> None],
     [message |-> "Missing value", column |-> "name", row |-> None,
      value |-> Some(StrV(<<"A">>))]}

TotalCalls == calls.error + calls.warning + calls.passed

InitResult ==
    /\ \E source_file \in SourceFiles :
          /\ result = NewResult(source_file)
          /\ calls = NoCalls(source_file)
    /\ args = None
    /\ summary = None
    /\ pc = "ready"
    /\ op = "__init__"
    /\ df = NoTable
    /\ rules = NoRules
    /\ missing_result = None
    /\ type_result = None
    /\ TypeIdle
    /\ FileIdle
    /\ CliIdle

AddError ==
    /\ TotalCalls < MaxEntries
    /\ \E a \in CallArgs :
          /\ result' = add_error(result, a.message, a.column, a.row, a.value)
          /\ args' = a
    /\ calls' = [calls EXCEPT !.error = @ + 1]
    /\ op' = "add_error"
    /\ UNCHANGED <<tableVars, pc, summary, typeVars, fileVars, cliVars>>

AddWarning ==
    /\ TotalCalls < MaxEntries
    /\ \E a \in CallArgs :
          /\ result' = add_warning(result, a.message, a.column, a.row, a.value)
          /\ args' = a
    /\ calls' = [calls EXCEPT !.warning = @ + 1]
    /\ op' = "add_warning"
    /\ UNCHANGED <<tableVars, pc, summary, typeVars, fileVars, cliVars>>

\* add_passed takes no value
AddPassed ==
    /\ TotalCalls < MaxEntries
    /\ \E a \in CallArgs :
          /\ result' = add_passed(result, a.message, a.column, a.row)
          /\ args' = [a EXCEPT !.value = None]
    /\ calls' = [calls EXCEPT !.passed = @ + 1]
    /\ op' = "add_passed"
    /\ UNCHANGED <<tableVars, pc, summary, typeVars, fileVars, cliVars>>

GetSummary ==
    /\ summary' = Some(get_summary(result))
    /\ op' = "get_summary"
    /\ UNCHANGED <<tableVars, pc, result, calls, args, typeVars, fileVars,
                   cliVars>>

NextResult == AddError \/ AddWarning \/ AddPassed \/ GetSummary

SpecResult == InitResult /\ [][NextResult]_vars

IsPrefix(s, t) == Len(s) <= Len(t) /\ s = SubSeq(t, 1, Len(s))

\* C9: after any sequence of add_error, add_warning and add_passed calls,
\* get_summary() returns total_errors, total_warnings and total_passed equal
\* to the numbers of those calls, total_issues = total_errors +
\* total_warnings, and source_file = the constructor's argument; get_summary()
\* changes nothing of the result.
C9_Summary ==
    [][op' = "get_summary" =>
          /\ summary' = Some([source_file |-> calls.source_file,
                              total_errors |-> calls.error,
                              total_warnings |-> calls.warning,
                              total_passed |-> calls.passed,
                              total_issues |-> calls.error + calls.warning])
          /\ result' = result]_vars

\* the summary of two errors, one warning and one passed entry
C9_Witness ==
    /\ op = "get_summary"
    /\ calls.error = 2 /\ calls.warning = 1 /\ calls.passed = 1
    /\ summary # None
    /\ summary[1].total_issues = 3
    /\ summary[1].total_passed = 1
    /\ summary[1].source_file = "test.xlsx"

\* C10: add_error, add_warning and add_passed each append exactly one entry,
\* with the given message, column and row and the severity 'error',
\* 'warning' or 'passed', at the end of their own sequence and leave the other
\* two sequences and source_file unchanged; every sequence's earlier contents
\* stay a prefix of its later contents (nothing is removed, reordered or
\* deduplicated).
C10_AppendOnly ==
    [][/\ op' = "add_error" =>
              /\ result'.errors =
                    Append(result.errors,
                           [message |-> args'.message, column |-> args'.column,
                            row |-> args'.row, severity |-> "error",
                            value |-> args'.value])
              /\ result'.warnings = result.warnings
              /\ result'.passed = result.passed
       /\ op' = "add_warning" =>
              /\ result'.warnings =
                    Append(result.warnings,
                           [message |-> args'.message, column |-> args'.column,
                            row |-> args'.row, severity |-> "warning",
                            value |-> args'.value])
              /\ result'.errors = result.errors
              /\ result'.passed = result.passed
       /\ op' = "add_passed" =>
              /\ result'.passed =
                    Append(result.passed,
                           [message |-> args'.message, column |-> args'.column,
                            row |-> args'.row, severity |-> "passed",
                            value |-> None])
              /\ result'.errors = result.errors
              /\ result'.warnings = result.warnings
       /\ result'.source_file = result.source_file
       /\ \A field \in {"errors", "warnings", "passed"} :
              IsPrefix(result[field], result'[field])]_vars

\* the same error added twice, next to a warning and a passed entry
C10_Witness ==
    /\ op = "add_error"
    /\ Len(result.errors) = 2
    /\ result.errors[1] = result.errors[2]
    /\ Len(result.warnings) = 1
    /\ Len(result.passed) = 1

-----------------------------------------------------------------------------
(* SpecFile: validate_file on a path that may not exist, may carry an      *)
(* extension the loader does not read, or may hold unparsable content.     *)

Suffixes == {".xlsx", ".csv", ".txt", ".XLSX"}

\* a file that does not exist has no content to parse
Files ==
    {f \in [path : {"data" \o suffix : suffix \in Suffixes},
            exists : BOOLEAN, readable : BOOLEAN] : f.readable => f.exists}

InitFile ==
    /\ file \in Files
    /\ raised = None
    /\ df \in (IF file.exists /\ file.readable THEN TablesUpTo(1) ELSE {NoTable})
    /\ rules \in RuleSets
    /\ pc = "ready"
    /\ op = "none"
    /\ result = None
    /\ missing_result = None
    /\ type_result = None
    /\ Idle

SpecFile == InitFile /\ [][ValidateFile]_vars

\* the path carries one of the two extensions the loader reads
Supported(path) == path \in {"data.xlsx", "data.csv"}

\* C11: validate_file raises FileNotFoundError when the path does not exist,
\* whatever its extension; it raises ValueError when the path exists but its
\* extension is neither .xlsx nor .csv or its content cannot be parsed.  A
\* run that raises has created no ValidationResult and executed no pass; a
\* run that returns holds the complete result: the findings of every pass
\* the rules ask for.
C11_LoadErrors ==
    RanValidateFile =>
        /\ ~file.exists =>
               raised # None /\ raised[1].type = "FileNotFoundError"
        /\ file.exists /\ ~(Supported(file.path) /\ file.readable) =>
               raised # None /\ raised[1].type = "ValueError"
        /\ file.exists /\ Supported(file.path) /\ file.readable =>
               raised = None
        /\ raised # None =>
               result = None /\ missing_result = None /\ type_result = None
        /\ raised = None =>
               /\ result # None
               /\ result.source_file = file.path
               /\ \/ /\ df.rows = 0 \/ df.columns = <<>>
                     /\ Len(result.warnings) = 1
                  \/ /\ ~(df.rows = 0 \/ df.columns = <<>>)
                     /\ missing_result # None
                     /\ ("data_types" \in DOMAIN rules) = (type_result # None)
                     /\ \A field \in {"errors", "warnings", "passed"} :
                           Len(result[field]) >=
                               Len(missing_result[field])
                                   + Len(SeqOrEmpty(type_result, field))

\* a missing path with an extension the loader does not read, and an
\* existing workbook that cannot be parsed
C11_Witness ==
    /\ RanValidateFile
    /\ raised # None
    /\ result = None
    /\ \/ ~file.exists /\ file.path = "data.txt"
       \/ file.exists /\ ~file.readable /\ file.path = "data.xlsx"

-----------------------------------------------------------------------------
(* The colored output: DataValidator.generate_colored_output and           *)
(* _apply_color_coding.  A dictionary keyed by cells is a function whose   *)
(* domain is a set of <<row, column>> pairs.                               *)

\* self.colors: the fill of each severity, as its RGB code
colors == [error |-> "FFCCCC", warning |-> "FFFFCC", passed |-> "CCFFCC"]

\* result.errors + result.warnings + result.passed
all_entries(r) == r.errors \o r.warnings \o r.passed

\* pd.read_excel on the file: the exception it raises, None when it parses.
\* It parses workbooks only; on the text of a .csv file it raises
\* ValueError (the Excel file format cannot be determined).
read_excel(f) ==
    IF ~f.exists
    THEN Some(Exception("FileNotFoundError", "No such file: " \o f.path))
    ELSE IF f.readable /\ endswith(f.path, ".xlsx") THEN None
    ELSE Some(Exception("ValueError", "Excel file format cannot be determined"))

\* pd.read_csv on the file
read_csv(f) ==
    IF ~f.exists
    THEN Some(Exception("FileNotFoundError", "No such file: " \o f.path))
    ELSE IF f.readable /\ ~endswith(f.path, ".xlsx") THEN None
    ELSE Some(Exception("ParserError", ParserError))

\* list.index: the zero-based position of the first occurrence, None where
\* the code raises ValueError
index(list, x) ==
    IF \E i \in 1..Len(list) : list[i] = x
    THEN Some((CHOOSE i \in 1..Len(list) :
                  list[i] = x /\ \A j \in 1..(i - 1) : list[j] # x) - 1)
    ELSE None

NoCells == [cell \in {} |-> ""]

\* dictionary[key] = val
SetItem(dictionary, key, val) == (key :> val) @@ dictionary

\* the loop of lines 286-298 over the entries, from the mapping so far; f is
\* the file at result.source_file and d the table a reader parses from it
RECURSIVE cell_severity(_, _, _, _)
cell_severity(entries, d, f, mapping) ==
    IF entries = <<>> THEN mapping
    ELSE LET entry == Head(entries)
             col_idx == index(d.columns, entry.column)
         IN  IF entry.row = None
             THEN cell_severity(Tail(entries), d, f, mapping)
             ELSE IF read_excel(f) # None \/ col_idx = None
             THEN cell_severity(Tail(entries), d, f, mapping)
             ELSE cell_severity(Tail(entries), d, f,
                                SetItem(mapping,
                                        <<entry.row[1] + 2, col_idx[1] + 1>>,
                                        entry.severity))

\* the fills _apply_color_coding gives the cells of the sheet
_apply_color_coding(r, d, f) ==
    LET mapping == cell_severity(all_entries(r), d, f, NoCells)
    IN  [cell \in {c \in DOMAIN mapping : mapping[c] \in DOMAIN colors} |->
            colors[mapping[cell]]]

\* str.title of a severity
title(severity) ==
    CASE severity = "error" -> "Error"
      [] severity = "warning" -> "Warning"
      [] severity = "passed" -> "Passed"
      [] OTHER -> severity

\* the row written with "entry.row or 'All'": row 0 is shown as 'All'
SummaryRow_FalsyRow(entry) ==
    [Column |-> entry.column,
     Row |-> IF entry.row = None \/ entry.row = Some(0)
             THEN StrV(<<"A", "l", "l">>)
             ELSE IntV(entry.row[1]),
     Severity |-> title(entry.severity),
     Message |-> entry.message,
     Value |-> IF entry.value = None THEN StrV(<<>>) ELSE entry.value[1]]

\* the row of the Summary sheet for an entry (lines 240-246); the cells of
\* the Row and Value columns are cell values
SummaryRow(entry) ==
    [Column |-> entry.column,
     Row |-> IF entry.row = None THEN StrV(<<"A", "l", "l">>)
             ELSE IntV(entry.row[1]),
     Severity |-> title(entry.severity),
     Message |-> entry.message,
     Value |-> IF entry.value = None THEN StrV(<<>>) ELSE entry.value[1]]

\* the single row of the Data_Lineage sheet (lines 251-259)
LineageRow(r, d, now) ==
    [source_file |-> r.source_file,
     total_rows |-> d.rows,
     total_columns |-> Len(d.columns),
     validation_timestamp |-> now,
     total_errors |-> Len(r.errors),
     total_warnings |-> Len(r.warnings),
     total_passed |-> Len(r.passed)]

\* generate_colored_output: the exception it raises (None when it returns)
\* and the workbook it writes at output_path.  f is the file at
\* result.source_file, d the table a reader parses from it, now the clock.
generate_colored_output(r, d, f, output_path, now) ==
    LET exc == IF endswith(r.source_file, ".xlsx") THEN read_excel(f)
               ELSE read_csv(f)
    IN  IF exc # None THEN [raised |-> exc, workbook |-> None]
        ELSE [raised |-> None,
              workbook |->
                  Some([path |-> output_path,
                        Validated_Data |->
                            [table |-> d,
                             fills |-> _apply_color_coding(r, d, f)],
                        Summary |->
                            [i \in 1..Len(all_entries(r)) |->
                                SummaryRow(all_entries(r)[i])],
                        Data_Lineage |-> <<LineageRow(r, d, now)>>])]

-----------------------------------------------------------------------------
(* SpecRender: generate_colored_output on a ValidationResult built by at   *)
(* most MaxFindings add_* calls, for a workbook source and for a .csv      *)
(* source holding the same table.                                          *)

MaxFindings == 2

Timestamps == {"2024-01-01T00:00:00", "2024-01-01T00:00:01"}

OutputPath == "data_validated.xlsx"

RenderFiles ==
    {f \in Files : /\ f.exists /\ f.readable
                   /\ endswith(f.path, ".xlsx") \/ endswith(f.path, ".csv")}

RenderTable ==
    DataFrame(<<"id", "name">>, 2,
              [c \in {"id", "name"} |->
                  IF c = "id" THEN <<Null, IntV(1)>>
                  ELSE <<StrV(<<>>), StrV(<<"A">>)>>])

\* the columns and rows the findings name: "zip" is no column of the table
FindingColumns == {"id", "name", "zip"}
FindingRows == {None, Some(0), Some(1)}

\* the value an error is given: none, or the integer 0
FindingValues == {None, Some(IntV(0))}

InitRender ==
    /\ file \in RenderFiles
    /\ raised = None
    /\ df = RenderTable
    /\ rules = NoRules
    /\ result = NewResult(file.path)
    /\ missing_result = None
    /\ type_result = None
    /\ pc = "ready"
    /\ op = "__init__"
    /\ Idle

RenderAddError ==
    /\ pc = "ready"
    /\ Len(all_entries(result)) < MaxFindings
    /\ \E column \in FindingColumns, row \in FindingRows,
          val \in FindingValues :
          result' = add_error(result, "finding", column, row, val)
    /\ op' = "add_error"
    /\ UNCHANGED <<df, rules, missing_result, type_result, pc, callVars,
                   typeVars, fileVars, cliVars>>

RenderAddWarning ==
    /\ pc = "ready"
    /\ Len(all_entries(result)) < MaxFindings
    /\ \E column \in FindingColumns, row \in FindingRows :
          result' = add_warning(result, "finding", column, row, None)
    /\ op' = "add_warning"
    /\ UNCHANGED <<df, rules, missing_result, type_result, pc, callVars,
                   typeVars, fileVars, cliVars>>

RenderAddPassed ==
    /\ pc = "ready"
    /\ Len(all_entries(result)) < MaxFindings
    /\ \E column \in FindingColumns, row \in FindingRows :
          result' = add_passed(result, "finding", column, row)
    /\ op' = "add_passed"
    /\ UNCHANGED <<df, rules, missing_result, type_result, pc, callVars,
                   typeVars, fileVars, cliVars>>

GenerateColoredOutput ==
    /\ pc = "ready"
    /\ \E now \in Timestamps :
          LET out == generate_colored_output(result, df, file, OutputPath, now)
          IN  /\ raised' = out.raised
              /\ workbook' = out.workbook
    /\ pc' = "done"
    /\ op' = "generate_colored_output"
    /\ UNCHANGED <<tableVars, result, callVars, typeVars, file, session_dir,
                   returned>>

NextRender ==
    RenderAddError \/ RenderAddWarning \/ RenderAddPassed
        \/ GenerateColoredOutput

SpecRender == InitRender /\ [][NextRender]_vars

\* generate_colored_output returned and wrote the workbook
Rendered == pc = "done" /\ op = "generate_colored_output" /\ workbook # None

\* the fills of the Validated_Data sheet
Fills == workbook[1].Validated_Data.fills

\* the entries of the result, in the order errors, warnings, passed
Entries == result.errors \o result.warnings \o result.passed

\* the sheet cell of an entry with a row and a column of the table: the
\* header takes sheet row 1, and sheet rows and columns count from 1
SheetCell(e) ==
    <<e.row[1] + 2, CHOOSE k \in 1..Len(df.columns) : df.columns[k] = e.column>>

\* the positions in Entries of the entries that target the cell
Targeting(cell) ==
    {i \in 1..Len(Entries) :
        /\ Entries[i].row # None
        /\ Entries[i].column \in Columns(df)
        /\ SheetCell(Entries[i]) = cell}

TargetedCells ==
    {SheetCell(Entries[i]) :
        i \in {j \in 1..Len(Entries) : /\ Entries[j].row # None
                                       /\ Entries[j].column \in Columns(df)}}

\* light red, light yellow, light green
FillOf(severity) ==
    CASE severity = "error" -> "FFCCCC"
      [] severity = "warning" -> "FFFFCC"
      [] severity = "passed" -> "CCFFCC"

\* error over warning over passed
Rank(severity) ==
    CASE severity = "error" -> 3
      [] severity = "warning" -> 2
      [] severity = "passed" -> 1

\* C12: when several entries with a row target the same cell, the cell has
\* the color of the last of them in the concatenation errors, warnings,
\* passed: the passed color when an error and a passed entry target it, the
\* warning color when an error and a warning do.
C12_LastWins ==
    Rendered =>
        \A cell \in TargetedCells :
            LET last == CHOOSE i \in Targeting(cell) :
                            \A j \in Targeting(cell) : j <= i
            IN  /\ cell \in DOMAIN Fills
                /\ Fills[cell] = FillOf(Entries[last].severity)

\* C13: a cell several entries target has the color of the most severe of
\* them: error over warning over passed.
C13_HighestSeverityWins ==
    Rendered =>
        \A cell \in TargetedCells :
            LET worst == CHOOSE i \in Targeting(cell) :
                             \A j \in Targeting(cell) :
                                 Rank(Entries[j].severity)
                                     <= Rank(Entries[i].severity)
            IN  /\ cell \in DOMAIN Fills
                /\ Fills[cell] = FillOf(Entries[worst].severity)

\* C14: the colored cells are exactly the cells targeted by an entry that
\* has a row and whose column is a column of the table: an entry at row r
\* and column position c colors sheet cell (r + 2, c + 1) with the fixed
\* color of its severity; entries without a row color nothing and every
\* other cell stays uncolored.
C14_ColoredCells ==
    Rendered =>
        /\ DOMAIN Fills = TargetedCells
        /\ \A cell \in TargetedCells :
              \E i \in Targeting(cell) :
                  Fills[cell] = FillOf(Entries[i].severity)

-----------------------------------------------------------------------------
(* The CLI's session store (src/src/cli.py).  Python values are tagged     *)
(* records; a JSON document is the tree json.dump writes; a session file   *)
(* is [valid |-> TRUE, doc |-> document] or, when the dump broke off,      *)
(* [valid |-> FALSE].                                                      *)

PyStr(s) == [py |-> "str", s |-> s]
PyInt(n) == [py |-> "int", n |-> n]
PyList(items) == [py |-> "list", items |-> items]
PyTuple(items) == [py |-> "tuple", items |-> items]
PySet(elems) == [py |-> "set", elems |-> elems]
PyDict(map) == [py |-> "dict", map |-> map]

\* whether json.dump can encode the value (a set makes it raise TypeError)
RECURSIVE Serializable(_)
Serializable(v) ==
    CASE v.py \in {"str", "int"} -> TRUE
      [] v.py \in {"list", "tuple"} ->
            \A i \in 1..Len(v.items) : Serializable(v.items[i])
      [] v.py = "dict" -> \A key \in DOMAIN v.map : Serializable(v.map[key])
      [] OTHER -> FALSE

\* json.dump: lists and tuples alike become arrays
RECURSIVE dumps(_)
dumps(v) ==
    CASE v.py = "str" -> [js |-> "string", s |-> v.s]
      [] v.py = "int" -> [js |-> "number", n |-> v.n]
      [] v.py \in {"list", "tuple"} ->
            [js |-> "array",
             items |-> [i \in 1..Len(v.items) |-> dumps(v.items[i])]]
      [] v.py = "dict" ->
            [js |-> "object",
             map |-> [key \in DOMAIN v.map |-> dumps(v.map[key])]]

\* json.load: arrays become lists
RECURSIVE loads(_)
loads(doc) ==
    CASE doc.js = "string" -> PyStr(doc.s)
      [] doc.js = "number" -> PyInt(doc.n)
      [] doc.js = "array" ->
            PyList([i \in 1..Len(doc.items) |-> loads(doc.items[i])])
      [] doc.js = "object" ->
            PyDict([key \in DOMAIN doc.map |-> loads(doc.map[key])])

\* the file open(file_path, 'w') leaves when json.dump raises part-way
Truncated == [valid |-> FALSE]

\* save_session_data on the session directory dir: the exception it raises
\* (None when it returns) and the directory afterwards
save_session_data(dir, filename, data) ==
    IF Serializable(data)
    THEN [raised |-> None,
          session_dir |-> SetItem(dir, filename,
                                  [valid |-> TRUE, doc |-> dumps(data)])]
    ELSE [raised |-> Some(Exception("TypeError",
                                    "Object is not JSON serializable")),
          session_dir |-> SetItem(dir, filename, Truncated)]

\* load_session_data: None when the file does not exist or does not parse
load_session_data(dir, filename) ==
    IF filename \notin DOMAIN dir THEN None
    ELSE IF dir[filename].valid THEN Some(loads(dir[filename].doc))
    ELSE None

\* the directory clear_session leaves: it unlinks the files that match
\* glob('*.json')
clear_session(dir) ==
    [name \in {n \in DOMAIN dir : ~endswith(n, ".json")} |-> dir[name]]

\* Path(file_path).stem, over the file names of the model
stem(path) ==
    CHOOSE st \in Stems : \E suffix \in Suffixes : path = st \o suffix

\* result.get_summary() as the dictionary that is saved
PySummary(sum) ==
    PyDict([source_file |-> PyStr(sum.source_file),
            total_errors |-> PyInt(sum.total_errors),
            total_warnings |-> PyInt(sum.total_warnings),
            total_passed |-> PyInt(sum.total_passed),
            total_issues |-> PyInt(sum.total_issues)])

\* execute_validate from the generation of the output on (lines 155-177),
\* given what validate_file returned
AfterValidate(run, f, d, output_path, dir, book, now) ==
    LET out_path == IF output_path = None
                    THEN stem(f.path) \o "_validated.xlsx"
                    ELSE output_path[1]
        out == generate_colored_output(run.result, d, f, out_path, now)
        session_file == "validate_" \o stem(f.path) \o ".json"
        saved == save_session_data(
                     dir, session_file,
                     PyDict([source_file |-> PyStr(f.path),
                             output_file |-> PyStr(out_path),
                             summary |-> PySummary(get_summary(run.result)),
                             timestamp |-> PyStr(now)]))
    IN  IF out.raised # None
        THEN [raised |-> out.raised, returned |-> None, workbook |-> book,
              session_dir |-> dir, result |-> run.result]
        ELSE IF saved.raised # None
        THEN [raised |-> saved.raised, returned |-> None,
              workbook |-> out.workbook, session_dir |-> saved.session_dir,
              result |-> run.result]
        ELSE [raised |-> None,
              returned |->
                  Some([success |-> TRUE,
                        output_file |-> out_path,
                        summary |-> get_summary(run.result),
                        message |-> "Validation complete. Results saved to "
                                        \o out_path]),
              workbook |-> out.workbook,
              session_dir |-> saved.session_dir,
              result |-> run.result]

\* the try block of execute_validate (lines 151-177): the exception that
\* leaves it (None when it reaches the return), what it returns, and the
\* workbook and session directory afterwards.  dir and book are the session
\* directory and the workbook before the call, now is the clock.
TryValidate(f, d, rl, set_order, output_path, dir, book, now) ==
    IF LoadFile(f) # None
    THEN [raised |-> LoadFile(f), returned |-> None, workbook |-> book,
          session_dir |-> dir, result |-> None]
    ELSE CHOOSE outcome \in
             {AfterValidate(run, f, d, output_path, dir, book, now) :
                 run \in {validate_file(d, f.path, rl, set_order)}} : TRUE

\* execute_validate without its except clause
execute_validate_Propagates(f, d, rl, set_order, output_path, dir, book, now) ==
    TryValidate(f, d, rl, set_order, output_path, dir, book, now)

\* execute_validate: every exception of the try block is turned into
\* {'error': str(e)} (lines 179-181)
execute_validate(f, d, rl, set_order, output_path, dir, book, now) ==
    LET try == TryValidate(f, d, rl, set_order, output_path, dir, book, now)
    IN  IF try.raised # None
        THEN [try EXCEPT !.raised = None,
                         !.returned = Some([error |-> try.raised[1].message])]
        ELSE try

-----------------------------------------------------------------------------
(* SpecCli: one CLI on a fresh session directory, any sequence of          *)
(* execute_validate, save_session_data, load_session_data, clear_session.  *)

CliRules == [data_types |-> <<<<"id", "int">>, <<"name", "str">>>>]

\* the output_path argument: omitted or given
OutputPaths == {None, Some("report.xlsx")}

\* the file names save_session_data is given
SessionNames == {"test_session.json", "notes.txt"}

\* the file names load_session_data is given
LoadNames == SessionNames \cup {"validate_data.json"}

\* the data save_session_data is given: the dictionary of the test, one
\* holding a tuple and one holding a set
SessionData ==
    {PyDict([test |-> PyStr("data")]),
     PyDict([test |-> PyTuple(<<PyStr("data")>>)]),
     PyDict([test |-> PySet({PyStr("data")})])}

InitCli ==
    /\ file \in Files
    /\ raised = None
    /\ df = (IF file.exists /\ file.readable THEN RenderTable ELSE NoTable)
    /\ rules = CliRules
    /\ result = None
    /\ missing_result = None
    /\ type_result = None
    /\ pc = "ready"
    /\ op = "__init__"
    /\ Idle

ExecuteValidate ==
    /\ \E output_path \in OutputPaths, now \in Timestamps,
          set_order \in Orders(IF "required_columns" \in DOMAIN rules
                               THEN missing_columns(df, rules.required_columns)
                               ELSE {}) :
          \E run \in {execute_validate(file, df, rules, set_order, output_path,
                                      session_dir, workbook, now)} :
              /\ raised' = run.raised
              /\ returned' = run.returned
              /\ workbook' = run.workbook
              /\ session_dir' = run.session_dir
              /\ result' = run.result
              /\ args' = [file_path |-> file.path,
                          output_path |-> output_path]
    /\ op' = "execute_validate"
    /\ UNCHANGED <<df, rules, missing_result, type_result, pc, calls, summary,
                   typeVars, file>>

SaveSessionData ==
    /\ \E filename \in SessionNames, data \in SessionData :
          LET saved == save_session_data(session_dir, filename, data)
          IN  /\ raised' = saved.raised
              /\ session_dir' = saved.session_dir
              /\ returned' = (IF saved.raised = None THEN Some(None) ELSE None)
              /\ args' = [filename |-> filename, data |-> data]
    /\ op' = "save_session_data"
    /\ UNCHANGED <<tableVars, result, pc, calls, summary, typeVars, file,
                   workbook>>

LoadSessionData ==
    /\ \E filename \in LoadNames :
          /\ returned' = Some(load_session_data(session_dir, filename))
          /\ args' = [filename |-> filename]
    /\ raised' = None
    /\ op' = "load_session_data"
    /\ UNCHANGED <<tableVars, result, pc, calls, summary, typeVars, file,
                   workbook, session_dir>>

ClearSession ==
    /\ session_dir' = clear_session(session_dir)
    /\ returned' = Some([success |-> TRUE,
                         message |-> "Session cleared successfully"])
    /\ raised' = None
    /\ args' = None
    /\ op' = "clear_session"
    /\ UNCHANGED <<tableVars, result, pc, calls, summary, typeVars, file,
                   workbook>>

NextCli ==
    ExecuteValidate \/ SaveSessionData \/ LoadSessionData \/ ClearSession

SpecCli == InitCli /\ [][NextCli]_vars

\* C15: execute_validate never propagates an exception.  When the input
\* file does not exist it returns a dictionary with the key 'error', whose
\* text contains 'File not found', and without the key 'success'; it
\* generates no colored output and saves no session file.
C15_MissingFile ==
    [][op' = "execute_validate" =>
          /\ raised' = None
          /\ returned' # None
          /\ ~file.exists =>
                /\ "error" \in DOMAIN returned'[1]
                /\ "success" \notin DOMAIN returned'[1]
                /\ returned'[1].error = "File not found: " \o file.path
                /\ workbook' = None
                /\ workbook' = workbook
                /\ session_dir' = session_dir]_vars

\* execute_validate returned for a missing input file, after a session file
\* had been saved
C15_Witness ==
    /\ op = "execute_validate"
    /\ ~file.exists
    /\ returned = Some([error |-> "File not found: data.xlsx"])
    /\ workbook = None
    /\ DOMAIN session_dir = {"test_session.json"}

\* C16: the session store is a map from file name to data.  A fresh store
\* holds nothing; a save makes load_session_data return the saved data for
\* that name and leaves every other name as it was; clear_session makes it
\* return None for every name; load_session_data returns what the map holds
\* and changes nothing.
C16_SessionMap ==
    /\ \A name \in LoadNames : load_session_data(session_dir, name) = None
    /\ [][/\ op' = "save_session_data" =>
               /\ raised' = None =>
                      load_session_data(session_dir', args'.filename)
                          = Some(args'.data)
               /\ \A name \in LoadNames \ {args'.filename} :
                      load_session_data(session_dir', name)
                          = load_session_data(session_dir, name)
          /\ op' = "clear_session" =>
               \A name \in LoadNames :
                   load_session_data(session_dir', name) = None
          /\ op' = "load_session_data" =>
               /\ returned' = Some(load_session_data(session_dir,
                                                     args'.filename))
               /\ session_dir' = session_dir]_vars

-----------------------------------------------------------------------------
(* The order of the missing-value findings and the findings of the         *)
(* type-conformance pass, under Spec.                                      *)

\* the position of a column in the table
Position(column) == CHOOSE k \in 1..Len(df.columns) : df.columns[k] = column

\* C17: the errors of the missing-value pass are column-major: the entries
\* of an earlier column precede those of a later column, and within one
\* column the entries come in ascending row order, also when the column
\* holds both null cells and empty-string cells.
C17_ColumnMajor ==
    RanMissing =>
        LET errs == MissingFindings.errors
        IN  \A i, j \in 1..Len(errs) :
                i < j =>
                    \/ Position(errs[i].column) < Position(errs[j].column)
                    \/ /\ errs[i].column = errs[j].column
                       /\ errs[i].row[1] < errs[j].row[1]

\* the run executed the type-conformance pass
RanTypes ==
    /\ pc = "done"
    /\ "data_types" \in DOMAIN rules
    /\ \/ op = "validate_file" /\ type_result # None
       \/ op = "validate_data_types"

\* the ValidationResult the type-conformance pass returned
TypeFindings == IF op = "validate_file" THEN type_result ELSE result

\* the entries of a sequence for a column, in order
Of(seq, column) == SelectSeq(seq, LAMBDA e : e.column = column)

\* the rows of a column of the table whose cell is not null
NonNullRows(column) ==
    {idx \in Rows(df) : df.cells[column][idx + 1] # Null}

Ascending(seq) ==
    \A i, j \in 1..Len(seq) : i < j => seq[i].row[1] < seq[j].row[1]

\* the number of entries of all three sequences for a column
EntriesFor(column) ==
    Len(Of(TypeFindings.errors, column))
        + Len(Of(TypeFindings.warnings, column))
        + Len(Of(TypeFindings.passed, column))

\* C18: for every rule whose column is in the table with a non-null cell,
\* the type-conformance pass emits exactly one entry per non-null cell, in
\* ascending row order: an error 'Invalid data type. Expected {type}, got
\* {type name}' with the row and the raw cell as value when the predicate
\* fails, else a passed 'Valid {type} value' with the row and no value; the
\* errors and passed entries of the column number its non-null cells, and
\* no other entry of the run carries a value.
C18_TypeEntries ==
    RanTypes =>
        /\ \A k \in 1..Len(rules.data_types) :
              LET column == rules.data_types[k][1]
                  expected == rules.data_types[k][2]
                  errs == Of(TypeFindings.errors, column)
                  oks == Of(TypeFindings.passed, column)
              IN  column \in Columns(df) /\ NonNullRows(column) # {} =>
                      /\ Len(errs) + Len(oks) = Cardinality(NonNullRows(column))
                      /\ Ascending(errs)
                      /\ Ascending(oks)
                      /\ \A idx \in NonNullRows(column) :
                            LET cell == df.cells[column][idx + 1]
                            IN  IF _check_data_type(cell, expected)
                                THEN \E i \in 1..Len(oks) :
                                        oks[i] = ValidationEntry(
                                            "Valid " \o expected \o " value",
                                            column, Some(idx), "passed", None)
                                ELSE \E i \in 1..Len(errs) :
                                        errs[i] = ValidationEntry(
                                            "Invalid data type. Expected "
                                                \o expected \o ", got "
                                                \o TypeName(cell),
                                            column, Some(idx), "error",
                                            Some(cell))
        /\ \A field \in {"errors", "warnings", "passed"} :
              \A i \in 1..Len(result[field]) :
                  LET e == result[field][i]
                  IN  e.value # None =>
                          /\ field = "errors"
                          /\ e.row # None
                          /\ \E k \in 1..Len(rules.data_types) :
                                /\ e.column = rules.data_types[k][1]
                                /\ e.message =
                                       "Invalid data type. Expected "
                                           \o rules.data_types[k][2]
                                           \o ", got " \o TypeName(e.value[1])

\* a run of validate_file in which a two-row column has a cell that fails
\* its type and, below it, one that passes
C18_Witness ==
    /\ RanTypes
    /\ op = "validate_file"
    /\ \E k \in 1..Len(rules.data_types) :
          LET column == rules.data_types[k][1]
          IN  /\ column \in Columns(df)
              /\ Len(Of(type_result.errors, column)) = 1
              /\ Len(Of(type_result.passed, column)) = 1
              /\ Of(type_result.errors, column)[1].row = Some(0)
              /\ Of(type_result.errors, column)[1].value # None

\* C19: in the type-conformance pass no null cell gets an error or a passed
\* entry; a column of the table whose cells are all null gets exactly one
\* warning 'Column contains only missing values' (column, no row) and no
\* error or passed entry, and the pass goes on with the next rule.
C19_NullColumns ==
    RanTypes =>
        \A k \in 1..Len(rules.data_types) :
            LET column == rules.data_types[k][1]
                errs == Of(TypeFindings.errors, column)
                oks == Of(TypeFindings.passed, column)
                warns == Of(TypeFindings.warnings, column)
            IN  column \in Columns(df) =>
                    /\ \A idx \in Rows(df) \ NonNullRows(column) :
                          /\ \A i \in 1..Len(errs) : errs[i].row # Some(idx)
                          /\ \A i \in 1..Len(oks) : oks[i].row # Some(idx)
                    /\ NonNullRows(column) = {} =>
                          /\ warns = <<ValidationEntry(
                                          "Column contains only missing values",
                                          column, None, "warning", None)>>
                          /\ errs = <<>>
                          /\ oks = <<>>
                          /\ \A later \in (k + 1)..Len(rules.data_types) :
                                EntriesFor(rules.data_types[later][1]) > 0

\* an all-null column whose rule is followed by the rule of a column with
\* a non-null cell
C19_Witness ==
    /\ RanTypes
    /\ df.rows = 2
    /\ \E k \in 1..(Len(rules.data_types) - 1) :
          LET column == rules.data_types[k][1]
              next == rules.data_types[k + 1][1]
          IN  /\ column \in Columns(df)
              /\ next \in Columns(df)
              /\ NonNullRows(column) = {}
              /\ Len(Of(TypeFindings.warnings, column)) = 1
              /\ Len(Of(TypeFindings.passed, next)) = 1
              /\ Cardinality(NonNullRows(next)) = 1

\* the position of a column in the rules
RuleOf(column) ==
    CHOOSE k \in 1..Len(rules.data_types) : rules.data_types[k][1] = column

\* C20: a column named in data_types that is not in the table gets exactly
\* one error 'Column not found in data' (column, no row, no value) and no
\* other entry; the rules of all other columns are still evaluated, in the
\* mapping's iteration order.
C20_AbsentColumns ==
    RanTypes =>
        /\ \A k \in 1..Len(rules.data_types) :
              LET column == rules.data_types[k][1]
              IN  /\ column \notin Columns(df) =>
                        /\ Of(TypeFindings.errors, column) =
                               <<ValidationEntry("Column not found in data",
                                                 column, None, "error", None)>>
                        /\ Of(TypeFindings.warnings, column) = <<>>
                        /\ Of(TypeFindings.passed, column) = <<>>
                  /\ EntriesFor(column) > 0
        /\ \A field \in {"errors", "warnings", "passed"} :
              LET seq == TypeFindings[field]
              IN  /\ \A i \in 1..Len(seq) :
                        \E k \in 1..Len(rules.data_types) :
                            seq[i].column = rules.data_types[k][1]
                  /\ \A i, j \in 1..Len(seq) :
                        i < j => RuleOf(seq[i].column) <= RuleOf(seq[j].column)

\* the first rule names an absent column and the two rules after it give
\* entries for their columns
C20_Witness ==
    /\ RanTypes
    /\ Len(rules.data_types) = 3
    /\ rules.data_types[1][1] \notin Columns(df)
    /\ Len(TypeFindings.errors) > 1
    /\ TypeFindings.errors[1].message = "Column not found in data"
    /\ TypeFindings.errors[2].column = rules.data_types[2][1]
    /\ Len(Of(TypeFindings.passed, rules.data_types[3][1])) > 0

-----------------------------------------------------------------------------
(* The findings listing of the rendered workbook, under SpecRender.        *)

\* the rows of the Summary sheet
Listing(book) == book[1].Summary

\* the row the listing is to show for an entry
Listed(e) ==
    [Column |-> e.column,
     Row |-> IF e.row = None THEN StrV(<<"A", "l", "l">>) ELSE IntV(e.row[1]),
     Severity |-> CASE e.severity = "error" -> "Error"
                    [] e.severity = "warning" -> "Warning"
                    [] e.severity = "passed" -> "Passed",
     Message |-> e.message,
     Value |-> IF e.value = None THEN StrV(<<>>) ELSE e.value[1]]

\* C21: the findings listing has one row per entry, len(errors) +
\* len(warnings) + len(passed) rows, in the order all errors, all warnings,
\* all passed, each group in result order; a row shows the entry's column,
\* its row or 'All' when it has none (row 0 is shown as 0), its severity
\* title-cased, its message, and its value or the empty string; rendering
\* leaves the result as it was.
C21_FindingsListing ==
    [][op' = "generate_colored_output" /\ workbook' # None =>
          LET rows == Listing(workbook')
              ne == Len(result.errors)
              nw == Len(result.warnings)
              np == Len(result.passed)
          IN  /\ Len(rows) = ne + nw + np
              /\ \A i \in 1..ne : rows[i] = Listed(result.errors[i])
              /\ \A i \in 1..nw : rows[ne + i] = Listed(result.warnings[i])
              /\ \A i \in 1..np : rows[ne + nw + i] = Listed(result.passed[i])
              /\ result' = result]_vars

\* a listing of two rows: an error at row 0 that carries a value, listed
\* ahead of a warning without a row that was added before it
C21_Witness ==
    /\ Rendered
    /\ Len(Listing(workbook)) = 2
    /\ Listing(workbook)[1].Severity = "Error"
    /\ Listing(workbook)[1].Row = IntV(0)
    /\ Listing(workbook)[1].Value = IntV(0)
    /\ Listing(workbook)[2].Severity = "Warning"
    /\ Listing(workbook)[2].Row = StrV(<<"A", "l", "l">>)
    /\ Listing(workbook)[2].Value = StrV(<<>>)

-----------------------------------------------------------------------------
(* SpecBool: a column of booleans, with or without missing cells, under    *)
(* each type tag, and _check_data_type on a boolean.                       *)

MaxFlags == 2

FlagCells == {BoolV(TRUE), BoolV(FALSE), Null}

FlagTables ==
    UNION {{DataFrame(<<"flag">>, rows, [c \in {"flag"} |-> cells]) :
               cells \in [1..rows -> FlagCells]} : rows \in 1..MaxFlags}

FlagRules == {[data_types |-> <<<<"flag", tag>>>>] : tag \in Tags}

InitBool ==
    /\ df \in FlagTables
    /\ rules \in FlagRules
    /\ value \in {BoolV(TRUE), BoolV(FALSE)}
    /\ expected_type = rules.data_types[1][2]
    /\ is_valid = None
    /\ pc = "ready"
    /\ op = "none"
    /\ result = None
    /\ missing_result = None
    /\ type_result = None
    /\ CallsIdle
    /\ FileIdle
    /\ CliIdle

NextBool == ValidateFile \/ ValidateDataTypes \/ CheckDataType

SpecBool == InitBool /\ [][NextBool]_vars

\* C22: the type predicate accepts a native boolean for 'bool' and also for
\* 'int' and 'float', and rejects it for 'str'; a column of booleans
\* validated as 'int' yields only passed entries, one per boolean.
C22_Booleans ==
    /\ pc = "done" /\ op = "_check_data_type" =>
          /\ expected_type \in {"bool", "int", "float"} => is_valid = Some(TRUE)
          /\ expected_type = "str" => is_valid = Some(FALSE)
    /\ RanTypes =>
          LET tag == rules.data_types[1][2]
              bools == NonNullRows("flag")
              errs == TypeFindings.errors
              oks == TypeFindings.passed
          IN  /\ tag \in {"bool", "int", "float"} =>
                    /\ errs = <<>>
                    /\ Len(oks) = Cardinality(bools)
                    /\ \A idx \in bools :
                          \E i \in 1..Len(oks) :
                              oks[i] = ValidationEntry(
                                  "Valid " \o tag \o " value", "flag",
                                  Some(idx), "passed", None)
              /\ tag = "str" =>
                    /\ oks = <<>>
                    /\ Len(errs) = Cardinality(bools)
                    /\ \A idx \in bools :
                          \E i \in 1..Len(errs) :
                              errs[i] = ValidationEntry(
                                  "Invalid data type. Expected str, got bool",
                                  "flag", Some(idx), "error",
                                  Some(df.cells["flag"][idx + 1]))

\* validate_file on a column of two booleans under 'int': two passed
\* entries of the type pass and no error
C22_Witness ==
    /\ RanTypes
    /\ op = "validate_file"
    /\ rules.data_types[1][2] = "int"
    /\ df.cells["flag"] = <<BoolV(TRUE), BoolV(FALSE)>>
    /\ Len(type_result.passed) = 2
    /\ type_result.errors = <<>>
    /\ result.errors = <<>>

====
